---- MODULE Spec2Model ----
(***************************************************************************)
(* SuperQ: MemoryCache (LRU), MemoryQueue (FIFO, bounded concurrency,      *)
(* request coalescing), ChatRepository and ChatService.                    *)
(*                                                                         *)
(* The specifications share the variables:                                 *)
(*   CacheSpec  a MemoryCache driven by arbitrary get/set/clear calls;     *)
(*   QueueSpec  the 'chat' MemoryQueue driven by arbitrary enqueue/clear   *)
(*              calls, with a processor that may fulfil or reject;         *)
(*   DrainSpec  the MemoryQueue of QueueSpec with a drain() call;          *)
(*   Spec       ChatService.processMessage calls on top of the repository, *)
(*              its queue and its cache;                                   *)
(*   ShutdownSpec  the application with a MemoryQueue or an InngestQueue   *)
(*              registered, its requests and its shutdown hook;            *)
(*   RegistrySpec  the queue registry under getQueue and clearAllQueues;   *)
(*   InngestSpec   an InngestQueue driven by arbitrary enqueue/clear calls.*)
(* One action is one callback of the event loop: the code between two      *)
(* suspension points (await, promise reaction) runs atomically.            *)
(***************************************************************************)
EXTENDS Integers, Sequences, FiniteSets, TLC

VARIABLES
  data,         \* MemoryCache.data: Map in insertion order, a sequence of <<key, value>>
  hits,         \* MemoryCache._hits
  misses,       \* MemoryCache._misses
  maxSize,      \* MemoryCache.maxSize
  queue,        \* MemoryQueue.queue: pending item ids, head first
  processing,   \* MemoryQueue.processing: ids of the items in the processing map
  coalescing,   \* MemoryQueue.coalescing: coalesce key -> item id
  stats,        \* MemoryQueue._stats
  concurrency,  \* MemoryQueue.concurrency
  items,        \* every QueueItem created so far, indexed by id
  proc,         \* position of the processor invocation of each item
  future,       \* the promise returned by each enqueue call
  pc,           \* position of each processMessage call
  text,         \* argument of each processMessage call
  cached,       \* value the cache lookup of each processMessage call returned
  result,       \* ProcessResult of each processMessage call
  warm,         \* history: at its start, an earlier call of the same text had returned
                \*          and the text had not left the cache since its last write
  overlap,      \* history: at its start, no call of the same text had returned yet
  gone,         \* history: keys evicted or cleared since they were last written
  lru,          \* history: keys of the cache by last access (a set, or a get that
                \*          returned the value), least recent first
  nops,         \* history: number of calls made on the cache or the queue
  nclear,       \* history: number of clear() calls made
  draining,     \* position of the MemoryQueue.drain() call
  enqueuedSince,\* history: enqueue was called after drain() resolved
  shutdown,     \* position of the shutdown hook of the application
  quiet,        \* history: when the hook started, no call was between its cache
                \*          lookup and its enqueue
  queueType,    \* env.queueType: the adapter getQueue registers
  istats,       \* InngestQueue._stats
  icall,        \* position of the InngestQueue.enqueue call of each processMessage call
  instances,    \* registry: queue name -> the adapter registered under it
  objs,         \* every adapter getQueue created, in creation order
  lastGet,      \* the adapter the last getQueue call returned
  handed,       \* history: per name, the adapters getQueue returned since the last
                \*          clearAllQueues()
  firstCfg,     \* history: per name, the config of the first getQueue call since
                \*          the last clearAllQueues()
  lastOp        \* history: the last call made on the MemoryCache, its key, the value
                \*          passed or returned, and whether the cache was cleared
                \*          and not set since

cacheVars == <<data, hits, misses, maxSize>>
queueVars == <<queue, processing, coalescing, stats, concurrency, items, proc, future>>
callVars == <<pc, text, cached, result, warm, overlap>>
histVars == <<gone, lru, nops, nclear>>
drainVars == <<draining, enqueuedSince>>
shutVars == <<shutdown, quiet>>
inngestVars == <<queueType, istats, icall>>
auxVars == <<lastOp>>
regVars == <<instances, objs, lastGet, handed, firstCfg>>
extVars == <<drainVars, shutVars, inngestVars, auxVars, regVars>>
vars == <<cacheVars, queueVars, callVars, histVars, extVars>>

----------------------------------------------------------------------------
(* Bounds of the model *)

MaxCalls == 2
MaxEnqueues == 3
MaxOps == 4
MaxClears == 1
MaxSizeBound == 2
MaxConcurrency == 2

Calls == 1..MaxCalls
Callers == 1..(IF MaxCalls > MaxEnqueues THEN MaxCalls ELSE MaxEnqueues)

\* Cache keys and values of CacheSpec: arbitrary strings, the empty one included.
Keys == {"", "a", "b"}
Values == {"", "v"}
\* Payload texts of QueueSpec (any string) and of Spec (validated: non-empty).
QueueTexts == {"", "x", "y"}
Texts == {"x", "y"}
\* Texts a client may post: valid ones, the empty one and one of 10001 characters
TooLong == "x^10001"
SubmitTexts == Texts \cup {"", TooLong}

\* Queue names and configs passed to getQueue; an optional field is a
\* sequence, empty when the field is not given
Names == {"chat", "jobs"}
Configs ==
  {[processor |-> "p1", concurrency |-> <<>>, getCoalesceKey |-> <<"byText">>],
   [processor |-> "p2", concurrency |-> <<2>>, getCoalesceKey |-> <<>>]}

QUEUE_CONCURRENCY == 1

TEXT_MIN_LENGTH == 1
TEXT_MAX_LENGTH == 10000

\* text.length
TextLength(t) ==
  CASE t = "" -> 0
    [] t = TooLong -> TEXT_MAX_LENGTH + 1
    [] OTHER -> 1

\* z.string().min(TEXT_MIN_LENGTH).max(TEXT_MAX_LENGTH)
ValidNoMax(t) == TextLength(t) >= TEXT_MIN_LENGTH

Valid(t) == TextLength(t) >= TEXT_MIN_LENGTH /\ TextLength(t) <= TEXT_MAX_LENGTH

----------------------------------------------------------------------------
(* JavaScript values *)

\* null / undefined
Null == "<null>"

\* ToBoolean of a string-or-null: null, undefined and "" are falsy.
Truthy(v) == v # Null /\ v # ""

Range(s) == {s[i] : i \in 1..Len(s)}

\* createHash('sha256').update(text).digest('hex'), by its first 8 hex digits
sha256(t) ==
  CASE t = "" -> "e3b0c442"
    [] t = "x" -> "2d711642"
    [] t = "y" -> "a1fce436"
    [] OTHER -> "ffffffff"

----------------------------------------------------------------------------
(* Map<string, string> in insertion order *)

MapKeys(m) == {m[i][1] : i \in 1..Len(m)}

MapHas(m, k) == k \in MapKeys(m)

\* Map.get: the value, or undefined
MapGet(m, k) ==
  IF MapHas(m, k) THEN (CHOOSE e \in Range(m) : e[1] = k)[2] ELSE Null

MapDelete(m, k) == SelectSeq(m, LAMBDA e : e[1] # k)

\* Map.set: an existing key keeps its position, a new key goes last
MapSet(m, k, v) ==
  IF MapHas(m, k)
  THEN [i \in 1..Len(m) |-> IF m[i][1] = k THEN <<k, v>> ELSE m[i]]
  ELSE Append(m, <<k, v>>)

\* Map.keys().next().value: the first key, or undefined
MapFirstKey(m) == IF Len(m) = 0 THEN Null ELSE m[1][1]

----------------------------------------------------------------------------
(* MemoryCache *)

\* get(key): the value handed back (null on a miss)
CacheGetResult(d, key) ==
  LET entry == MapGet(d, key) IN IF Truthy(entry) THEN entry ELSE Null

\* get(key): the map after the call
CacheGetData(d, key) ==
  LET entry == MapGet(d, key) IN
  IF Truthy(entry) THEN MapSet(MapDelete(d, key), key, entry) ELSE d

\* the guard of the eviction in set(): if (oldest) ...
EvictGuardAny(oldest) == oldest # Null

EvictGuard(oldest) == Truthy(oldest)

\* the comparison that triggers the eviction in set()
OverCapacityOff(size, max) == size > max + 1

OverCapacity(size, max) == size > max

\* set(key, value): the map after the call
CacheSetData(d, key, value, max) ==
  LET d1 == MapSet(MapDelete(d, key), key, value)
      oldest == MapFirstKey(d1)
  IN IF OverCapacity(Len(d1), max)
     THEN IF EvictGuard(oldest) THEN MapDelete(d1, oldest) ELSE d1
     ELSE d1

\* stats.size
CacheSize == Len(data)

\* history: the access order after key is accessed
Touch(order, key) == Append(SelectSeq(order, LAMBDA k : k # key), key)

\* history: the access order restricted to the keys still present
Present(order, d) == SelectSeq(order, LAMBDA k : MapHas(d, k))

getAllHits(key) ==
  /\ hits' = hits + 1
  /\ misses' = misses
  /\ data' = CacheGetData(data, key)
  /\ lru' = IF CacheGetResult(data, key) # Null THEN Touch(lru, key) ELSE lru
  /\ UNCHANGED <<maxSize, gone>>

get(key) ==
  /\ hits' = IF Truthy(MapGet(data, key)) THEN hits + 1 ELSE hits
  /\ misses' = IF Truthy(MapGet(data, key)) THEN misses ELSE misses + 1
  /\ data' = CacheGetData(data, key)
  /\ lru' = IF CacheGetResult(data, key) # Null THEN Touch(lru, key) ELSE lru
  /\ UNCHANGED <<maxSize, gone>>

set(key, value) ==
  /\ data' = CacheSetData(data, key, value, maxSize)
  /\ lru' = Present(Touch(lru, key), data')
  /\ gone' = (gone \ {key}) \cup ((MapKeys(data) \cup {key}) \ MapKeys(data'))
  /\ UNCHANGED <<hits, misses, maxSize>>

CacheClearKeepData ==
  /\ hits' = 0
  /\ misses' = 0
  /\ UNCHANGED <<data, lru, gone, maxSize>>

CacheClearAll ==
  /\ data' = <<>>
  /\ hits' = 0
  /\ misses' = 0
  /\ lru' = <<>>
  /\ gone' = gone \cup MapKeys(data)
  /\ UNCHANGED maxSize

----------------------------------------------------------------------------
(* Promises handed to the callers of enqueue *)

NoPromise == [state |-> "none", value |-> Null]
PendingPromise == [state |-> "pending", value |-> Null]

\* Calling the resolve or reject function of a promise: the first call settles
\* it, later calls do nothing.
Settle(p, state, value) ==
  IF p.state = "pending" THEN [state |-> state, value |-> value] ELSE p

\* Invoking a (chained) callback: every caller of the chain is settled.
InvokeLast(fut, chain, state, value) ==
  [c \in DOMAIN fut |->
     IF Len(chain) > 0 /\ c = chain[Len(chain)] THEN Settle(fut[c], state, value) ELSE fut[c]]

Invoke(fut, chain, state, value) ==
  [c \in DOMAIN fut |-> IF c \in Range(chain) THEN Settle(fut[c], state, value) ELSE fut[c]]

\* The chained callback a coalesced enqueue leaves on the existing item:
\* the original callback first, then the new caller's.
ChainDropped(chain, c) == chain

Chain(chain, c) == Append(chain, c)

\* The calls a chained callback makes when it is invoked: the callback it
\* wrapped first (originalResolve / originalReject), then the new caller's.
RECURSIVE CallOrderNewFirst(_)
CallOrderNewFirst(chain) ==
  IF Len(chain) <= 1 THEN chain
  ELSE <<chain[Len(chain)]>> \o CallOrderNewFirst(SubSeq(chain, 1, Len(chain) - 1))

RECURSIVE CallOrder(_)
CallOrder(chain) ==
  IF Len(chain) <= 1 THEN chain
  ELSE CallOrder(SubSeq(chain, 1, Len(chain) - 1)) \o <<chain[Len(chain)]>>

----------------------------------------------------------------------------
(* MemoryQueue, configured as ChatRepository configures the 'chat' queue *)

ProcessorError == "processor failed"
QueueCleared == "Queue cleared"

\* getCoalesceKey: (item) => item.text
getCoalesceKeyConst(d) == "x"

getCoalesceKey(d) == d.text

\* the lookup of the coalescing index guarded by if (coalesceKey)
HasExistingNever(key) == FALSE

HasExisting(key) == Truthy(key) /\ key \in DOMAIN coalescing

MapPut(m, k, v) == [x \in (DOMAIN m) \cup {k} |-> IF x = k THEN v ELSE m[x]]

MapRemove(m, k) == [x \in (DOMAIN m) \ {k} |-> m[x]]

StaleStats ==
  [completed |-> 0, failed |-> 0, coalesced |-> 1, totalEnqueued |-> 0, totalProcessed |-> 0]

ZeroStats ==
  [completed |-> 0, failed |-> 0, coalesced |-> 0, totalEnqueued |-> 0, totalProcessed |-> 0]

\* if (this.processing.size >= this.concurrency) return
AtCapacityOff(p) == Cardinality(p) > concurrency

AtCapacity(p) == Cardinality(p) >= concurrency

\* this.queue.shift(): the item taken, and the rest
ShiftLast(q) == [item |-> q[Len(q)], rest |-> SubSeq(q, 1, Len(q) - 1)]

Shift(q) == [item |-> Head(q), rest |-> Tail(q)]

\* processNext(): the queue, the processing map, the items and the processor
\* invocations after the call
processNextNever(q, p, it, pr) == [queue |-> q, processing |-> p, items |-> it, proc |-> pr]

processNext(q, p, it, pr) ==
  IF AtCapacity(p) \/ q = <<>>
  THEN [queue |-> q, processing |-> p, items |-> it, proc |-> pr]
  ELSE LET s == Shift(q) IN
       [queue |-> s.rest,
        processing |-> p \cup {s.item},
        items |-> [it EXCEPT ![s.item].status = "processing"],
        proc |-> [pr EXCEPT ![s.item] = "delay"]]

\* this._stats.coalesced++
CountCoalescedNot(st) == st

CountCoalesced(st) == [st EXCEPT !.coalesced = @ + 1]

\* enqueue(data) called by caller c
enqueue(c, d) ==
  LET coalesceKey == getCoalesceKey(d) IN
  IF HasExisting(coalesceKey)
  THEN LET existing == coalescing[coalesceKey] IN
       /\ stats' = CountCoalesced(stats)
       /\ items' = [items EXCEPT ![existing].resolve = Chain(@, c),
                                 ![existing].reject = Chain(@, c)]
       /\ future' = [future EXCEPT ![c] = PendingPromise]
       /\ UNCHANGED <<queue, processing, coalescing, proc, concurrency>>
  ELSE LET id == Len(items) + 1
           item == [id |-> id, data |-> d, status |-> "pending",
                    resolve |-> <<c>>, reject |-> <<c>>]
           next == processNext(Append(queue, id), processing,
                               Append(items, item), Append(proc, "idle"))
       IN /\ stats' = [stats EXCEPT !.totalEnqueued = @ + 1]
          /\ coalescing' = IF Truthy(coalesceKey)
                           THEN MapPut(coalescing, coalesceKey, id)
                           ELSE coalescing
          /\ queue' = next.queue
          /\ processing' = next.processing
          /\ items' = next.items
          /\ proc' = next.proc
          /\ future' = [future EXCEPT ![c] = PendingPromise]
          /\ UNCHANGED concurrency

\* .then((result) => ...): the processor of item i fulfilled
onFulfilled(i, value) ==
  /\ items' = [items EXCEPT ![i].status = "completed"]
  /\ stats' = [stats EXCEPT !.completed = @ + 1, !.totalProcessed = @ + 1]
  /\ future' = Invoke(future, items[i].resolve, "fulfilled", value)
  /\ proc' = [proc EXCEPT ![i] = "settled"]
  /\ UNCHANGED <<queue, processing, coalescing, concurrency>>

\* .catch((error) => ...): the processor of item i rejected
onRejectedUncounted(i, error) ==
  /\ items' = [items EXCEPT ![i].status = "failed"]
  /\ stats' = [stats EXCEPT !.failed = @ + 1]
  /\ future' = Invoke(future, items[i].reject, "rejected", error)
  /\ proc' = [proc EXCEPT ![i] = "settled"]
  /\ UNCHANGED <<queue, processing, coalescing, concurrency>>

onRejected(i, error) ==
  /\ items' = [items EXCEPT ![i].status = "failed"]
  /\ stats' = [stats EXCEPT !.failed = @ + 1, !.totalProcessed = @ + 1]
  /\ future' = Invoke(future, items[i].reject, "rejected", error)
  /\ proc' = [proc EXCEPT ![i] = "settled"]
  /\ UNCHANGED <<queue, processing, coalescing, concurrency>>

\* .finally(() => ...): runs in a later reaction than the then/catch handler
onFinallyNoNext(i) ==
  LET coalesceKey == getCoalesceKey(items[i].data)
  IN /\ coalescing' = IF Truthy(coalesceKey)
                      THEN MapRemove(coalescing, coalesceKey)
                      ELSE coalescing
     /\ processing' = processing \ {i}
     /\ UNCHANGED <<queue, items, proc, stats, future, concurrency>>

onFinally(i) ==
  LET coalesceKey == getCoalesceKey(items[i].data)
      next == processNext(queue, processing \ {i}, items, proc)
  IN /\ coalescing' = IF Truthy(coalesceKey)
                      THEN MapRemove(coalescing, coalesceKey)
                      ELSE coalescing
     /\ queue' = next.queue
     /\ processing' = next.processing
     /\ items' = next.items
     /\ proc' = next.proc
     /\ UNCHANGED <<stats, future, concurrency>>

\* the callbacks clear() invokes: the reject of every pending item
ClearedChainFirst ==
  [c \in DOMAIN future |->
     IF \E n \in 1..Len(queue) : c = Head(items[queue[n]].reject)
     THEN Settle(future[c], "rejected", QueueCleared)
     ELSE future[c]]

ClearedChainAll ==
  [c \in DOMAIN future |->
     IF \E i \in Range(queue) \cup processing : c \in Range(items[i].reject)
     THEN Settle(future[c], "rejected", QueueCleared)
     ELSE future[c]]

ClearedChain ==
  [c \in DOMAIN future |->
     IF \E n \in 1..Len(queue) : c \in Range(items[queue[n]].reject)
     THEN Settle(future[c], "rejected", QueueCleared)
     ELSE future[c]]

\* clear()
clear ==
  /\ future' = ClearedChain
  /\ queue' = <<>>
  /\ coalescing' = <<>>
  /\ stats' = ZeroStats
  /\ UNCHANGED <<processing, items, proc, concurrency>>

\* stats.pending / pendingCount, stats.processing / processingCount
pendingCount == Len(queue)
processingCount == Cardinality(processing)

\* the condition of the loop of drain():
\* this.queue.length > 0 || this.processing.size > 0
BusyPendingOnly == Len(queue) > 0

Busy == Len(queue) > 0 \/ Cardinality(processing) > 0

\* drain(): one evaluation of the loop condition, at the call and after every
\* DRAIN_POLL_MS timer; the promise resolves when the loop exits
drain == draining' = IF Busy THEN "waiting" ELSE "resolved"

\* the handlers of item i that have not run yet
Running(i) == i \in processing /\ items[i].status = "processing"
Finishing(i) == i \in processing /\ items[i].status \in {"completed", "failed"}

----------------------------------------------------------------------------
(* CacheSpec: a MemoryCache under arbitrary calls *)

IdleQueue ==
  /\ queue = <<>>
  /\ processing = {}
  /\ coalescing = <<>>
  /\ stats = ZeroStats
  /\ items = <<>>
  /\ proc = <<>>
  /\ future = [c \in Callers |-> NoPromise]

IdleCalls ==
  /\ pc = [p \in Calls |-> "idle"]
  /\ text = [p \in Calls |-> Null]
  /\ cached = [p \in Calls |-> Null]
  /\ result = [p \in Calls |-> [hash |-> Null, processingTimeMs |-> 0, fromCache |-> FALSE]]
  /\ warm = [p \in Calls |-> FALSE]
  /\ overlap = [p \in Calls |-> FALSE]

ZeroInngestStats ==
  [pending |-> 0, processing |-> 0, completed |-> 0, failed |-> 0, coalesced |-> 0,
   totalEnqueued |-> 0, totalProcessed |-> 0]

\* no drain() call and no shutdown yet; an InngestQueue, if registered, is new
IdleExt ==
  /\ draining = "none"
  /\ enqueuedSince = FALSE
  /\ shutdown = "none"
  /\ quiet = FALSE
  /\ istats = ZeroInngestStats
  /\ icall = [p \in Calls |-> "none"]
  /\ lastOp = [op |-> "none", key |-> Null, value |-> Null, fresh |-> FALSE]
  /\ instances = <<>>
  /\ objs = <<>>
  /\ lastGet = 0
  /\ handed = [n \in Names |-> {}]
  /\ firstCfg = [n \in Names |-> <<>>]

EmptyCache ==
  /\ data = <<>>
  /\ hits = 0
  /\ misses = 0
  /\ gone = {}
  /\ lru = <<>>

CacheInit ==
  /\ EmptyCache
  /\ maxSize \in 0..MaxSizeBound
  /\ IdleQueue
  /\ concurrency = 1
  /\ IdleCalls
  /\ IdleExt
  /\ queueType = "memory"
  /\ nops = 0
  /\ nclear = 0

CacheGet ==
  /\ nops < MaxOps
  /\ \E k \in Keys :
       /\ get(k)
       /\ lastOp' = [op |-> "get", key |-> k, value |-> CacheGetResult(data, k),
                     fresh |-> lastOp.fresh]
  /\ nops' = nops + 1
  /\ UNCHANGED <<drainVars, shutVars, inngestVars, regVars, queueVars, callVars, nclear>>

CacheSet ==
  /\ nops < MaxOps
  /\ \E k \in Keys, v \in Values :
       /\ set(k, v)
       /\ lastOp' = [op |-> "set", key |-> k, value |-> v, fresh |-> FALSE]
  /\ nops' = nops + 1
  /\ UNCHANGED <<drainVars, shutVars, inngestVars, regVars, queueVars, callVars, nclear>>

CacheClear ==
  /\ nops < MaxOps
  /\ CacheClearAll
  /\ lastOp' = [op |-> "clear", key |-> Null, value |-> Null, fresh |-> TRUE]
  /\ nops' = nops + 1
  /\ UNCHANGED <<drainVars, shutVars, inngestVars, regVars, queueVars, callVars, nclear>>

CacheNext == CacheGet \/ CacheSet \/ CacheClear

CacheSpec == CacheInit /\ [][CacheNext]_vars

----------------------------------------------------------------------------
(* QueueSpec: the MemoryQueue under arbitrary enqueue and clear calls, its   *)
(* processor fulfilling or rejecting each invocation                         *)

QueueInit ==
  /\ EmptyCache
  /\ maxSize = 0
  /\ IdleQueue
  /\ concurrency \in 1..MaxConcurrency
  /\ IdleCalls
  /\ IdleExt
  /\ queueType = "memory"
  /\ nops = 0
  /\ nclear = 0

QEnqueue ==
  /\ nops < MaxEnqueues
  /\ \E t \in QueueTexts : enqueue(nops + 1, [text |-> t, requestId |-> nops + 1])
  /\ nops' = nops + 1
  /\ enqueuedSince' = (enqueuedSince \/ draining = "resolved")
  /\ UNCHANGED <<auxVars, regVars, draining, shutVars, inngestVars, cacheVars, callVars,
                 gone, lru, nclear>>

QFulfil ==
  /\ \E i \in 1..Len(items) :
       /\ Running(i)
       /\ onFulfilled(i, sha256(items[i].data.text))
  /\ UNCHANGED <<extVars, cacheVars, callVars, histVars>>

QReject ==
  /\ \E i \in 1..Len(items) :
       /\ Running(i)
       /\ onRejected(i, ProcessorError)
  /\ UNCHANGED <<extVars, cacheVars, callVars, histVars>>

QFinally ==
  /\ \E i \in 1..Len(items) :
       /\ Finishing(i)
       /\ onFinally(i)
  /\ UNCHANGED <<extVars, cacheVars, callVars, histVars>>

QClear ==
  /\ nclear < MaxClears
  /\ clear
  /\ nclear' = nclear + 1
  /\ UNCHANGED <<extVars, cacheVars, callVars, gone, lru, nops>>

QueueNext == QEnqueue \/ QFulfil \/ QReject \/ QFinally \/ QClear

QueueSpec == QueueInit /\ [][QueueNext]_vars

\* The event loop runs every reaction that is ready: a processor invocation
\* settles, and the then/catch and finally handlers of a settled one run.
QueueFairSpec ==
  /\ QueueSpec
  /\ WF_vars(QFulfil \/ QReject)
  /\ WF_vars(QFinally)

----------------------------------------------------------------------------
(* DrainSpec: the MemoryQueue of QueueSpec with a drain() call *)

\* drain() is called
QDrain ==
  /\ draining = "none"
  /\ drain
  /\ UNCHANGED <<auxVars, regVars, enqueuedSince, shutVars, inngestVars, cacheVars,
                 queueVars, callVars,
                 histVars>>

\* the poll timer of drain() fires
QDrainPoll ==
  /\ draining = "waiting"
  /\ drain
  /\ UNCHANGED <<auxVars, regVars, enqueuedSince, shutVars, inngestVars, cacheVars,
                 queueVars, callVars,
                 histVars>>

DrainNext ==
  \/ QEnqueue
  \/ QFulfil
  \/ QReject
  \/ QFinally
  \/ QClear
  \/ QDrain
  \/ QDrainPoll

DrainSpec == QueueInit /\ [][DrainNext]_vars

\* The poll timer of a waiting drain() fires, beside the reactions of the queue.
DrainFairSpec ==
  /\ DrainSpec
  /\ WF_vars(QFulfil \/ QReject)
  /\ WF_vars(QFinally)
  /\ WF_vars(QDrainPoll)

----------------------------------------------------------------------------
(* Spec: ChatService.processMessage calls over ChatRepository *)

PROCESSING_DELAY_MS == 10000

\* The service runs with a cache that can hold an entry (CACHE_MAX_SIZE >= 1);
\* CacheSpec covers a maximum of 0.
Init ==
  /\ EmptyCache
  /\ maxSize \in 1..MaxSizeBound
  /\ IdleQueue
  /\ concurrency \in 1..MaxConcurrency
  /\ IdleCalls
  /\ IdleExt
  /\ queueType = "memory"
  /\ nops = 0
  /\ nclear = 0

Returned(t) == \E q \in Calls : text[q] = t /\ pc[q] = "done"
Ended(t) == \E q \in Calls : text[q] = t /\ pc[q] \in {"done", "threw"}

\* The validation hook of POST /chat: an invalid body is answered 400
\* BAD_REQUEST and the handler is not run.
BadRequest ==
  \E p \in Calls, t \in SubmitTexts :
    /\ pc[p] = "idle"
    /\ \A q \in 1..(p - 1) : pc[q] # "idle"
    /\ shutdown = "none"
    /\ ~Valid(t)
    /\ text' = [text EXCEPT ![p] = t]
    /\ pc' = [pc EXCEPT ![p] = "badRequest"]
    /\ UNCHANGED <<extVars, cacheVars, queueVars, cached, result, warm, overlap, histVars>>

\* The handler of POST /chat with a valid body: processMessage(text) up to its
\* first await, the id and the cache lookup
ProcessMessage ==
  \E p \in Calls, t \in SubmitTexts :
    /\ pc[p] = "idle"
    /\ \A q \in 1..(p - 1) : pc[q] # "idle"
    /\ shutdown = "none"
    /\ Valid(t)
    /\ get(t)
    /\ cached' = [cached EXCEPT ![p] = CacheGetResult(data, t)]
    /\ text' = [text EXCEPT ![p] = t]
    /\ pc' = [pc EXCEPT ![p] = "lookup"]
    /\ warm' = [warm EXCEPT ![p] = Returned(t) /\ t \notin gone]
    /\ overlap' = [overlap EXCEPT ![p] = ~Ended(t)]
    /\ UNCHANGED <<extVars, queueVars, result, nops, nclear>>

\* { id, hash: cached, processingTimeMs: 0, fromCache: true }
CachedResultTimed(hash) ==
  [hash |-> hash, processingTimeMs |-> PROCESSING_DELAY_MS, fromCache |-> TRUE]

CachedResult(hash) == [hash |-> hash, processingTimeMs |-> 0, fromCache |-> TRUE]

\* if (cached) return { id, hash: cached, processingTimeMs: 0, fromCache: true }
ReturnCached ==
  \E p \in Calls :
    /\ pc[p] = "lookup"
    /\ Truthy(cached[p])
    /\ result' = [result EXCEPT ![p] = CachedResult(cached[p])]
    /\ pc' = [pc EXCEPT ![p] = "done"]
    /\ UNCHANGED <<extVars, cacheVars, queueVars, text, cached, warm, overlap, histVars>>

\* await this.repository.enqueueComputation(text, id), up to the await
EnqueueComputation ==
  \E p \in Calls :
    /\ pc[p] = "lookup"
    /\ ~Truthy(cached[p])
    /\ queueType = "memory"
    /\ enqueue(p, [text |-> text[p], requestId |-> p])
    /\ pc' = [pc EXCEPT ![p] = "queued"]
    /\ enqueuedSince' = (enqueuedSince \/ draining = "resolved")
    /\ UNCHANGED <<auxVars, regVars, draining, shutVars, inngestVars, cacheVars, text,
                   cached, result, warm, overlap, histVars>>

\* return { id, hash: result.hash, processingTimeMs, fromCache: false }
ReturnComputed ==
  \E p \in Calls :
    /\ pc[p] = "queued"
    /\ future[p].state = "fulfilled"
    /\ result' = [result EXCEPT ![p] =
                    [hash |-> future[p].value, processingTimeMs |-> PROCESSING_DELAY_MS,
                     fromCache |-> FALSE]]
    /\ pc' = [pc EXCEPT ![p] = "done"]
    /\ UNCHANGED <<extVars, cacheVars, queueVars, text, cached, warm, overlap, histVars>>

\* the enqueue promise rejected: processMessage throws
Throw ==
  \E p \in Calls :
    /\ pc[p] = "queued"
    /\ future[p].state = "rejected"
    /\ pc' = [pc EXCEPT ![p] = "threw"]
    /\ UNCHANGED <<extVars, cacheVars, queueVars, text, cached, result, warm, overlap,
                   histVars>>

\* const hash = createHash('sha256').update(item.text).digest('hex')
hashOfEmpty(item) == sha256("")

hash(item) == sha256(item.text)

\* computeAndStore after the delay: the digest and the cache write
ComputeAndStoreWrite ==
  \E i \in 1..Len(items) :
    /\ Running(i)
    /\ proc[i] = "delay"
    /\ set(items[i].data.text, hash(items[i].data))
    /\ proc' = [proc EXCEPT ![i] = "stored"]
    /\ UNCHANGED <<extVars, queue, processing, coalescing, stats, concurrency, items, future,
                   callVars, nops, nclear>>

\* computeAndStore returns only after await this.cache.set(item.text, hash)
ReadyToReturnEarly(i) == proc[i] \in {"delay", "stored"}

ReadyToReturn(i) == proc[i] = "stored"

\* computeAndStore returns { hash, processingTimeMs }: the then handler runs
ComputeAndStoreReturn ==
  \E i \in 1..Len(items) :
    /\ Running(i)
    /\ ReadyToReturn(i)
    /\ onFulfilled(i, sha256(items[i].data.text))
    /\ UNCHANGED <<extVars, cacheVars, callVars, histVars>>

Finally ==
  \E i \in 1..Len(items) :
    /\ Finishing(i)
    /\ onFinally(i)
    /\ UNCHANGED <<extVars, cacheVars, callVars, histVars>>

\* ChatService.reset(): queue.clear()
Reset ==
  /\ nclear < MaxClears
  /\ clear
  /\ nclear' = nclear + 1
  /\ UNCHANGED <<extVars, cacheVars, callVars, gone, lru, nops>>

\* clearCache(): cache.clear()
ClearCache ==
  /\ nclear < MaxClears
  /\ CacheClearAll
  /\ nclear' = nclear + 1
  /\ UNCHANGED <<extVars, queueVars, callVars, nops>>

Next ==
  \/ BadRequest
  \/ ProcessMessage
  \/ ReturnCached
  \/ EnqueueComputation
  \/ ReturnComputed
  \/ Throw
  \/ ComputeAndStoreWrite
  \/ ComputeAndStoreReturn
  \/ Finally
  \/ Reset
  \/ ClearCache

Spec == Init /\ [][Next]_vars

----------------------------------------------------------------------------
(* ShutdownSpec: the application with either queue adapter registered as    *)
(* the 'chat' queue, its requests and its shutdown hook                      *)

ShutdownInit ==
  /\ EmptyCache
  /\ maxSize \in 1..MaxSizeBound
  /\ IdleQueue
  /\ concurrency \in 1..MaxConcurrency
  /\ IdleCalls
  /\ IdleExt
  /\ queueType \in {"memory", "inngest"}
  /\ nops = 0
  /\ nclear = 0

\* InngestQueue.enqueue(data) up to await client.send(...)
InngestEnqueue ==
  \E p \in Calls :
    /\ pc[p] = "lookup"
    /\ ~Truthy(cached[p])
    /\ queueType = "inngest"
    /\ istats' = [istats EXCEPT !.totalEnqueued = @ + 1, !.pending = @ + 1]
    /\ icall' = [icall EXCEPT ![p] = "sending"]
    /\ future' = [future EXCEPT ![p] = PendingPromise]
    /\ pc' = [pc EXCEPT ![p] = "queued"]
    /\ UNCHANGED <<auxVars, regVars, queueType, drainVars, shutVars, cacheVars, queue,
                   processing,
                   coalescing, stats, concurrency, items, proc, text, cached, result,
                   warm, overlap, histVars>>

\* client.send resolved: the gauges move and the processor is called
InngestSent ==
  \E p \in Calls :
    /\ icall[p] = "sending"
    /\ istats' = [istats EXCEPT !.pending = @ - 1, !.processing = @ + 1]
    /\ icall' = [icall EXCEPT ![p] = "delay"]
    /\ UNCHANGED <<auxVars, regVars, queueType, drainVars, shutVars, cacheVars, queueVars,
                   callVars,
                   histVars>>

\* client.send rejected: the catch block rethrows
InngestSendFailed ==
  \E p \in Calls :
    /\ icall[p] = "sending"
    /\ istats' = [istats EXCEPT !.pending = @ - 1, !.failed = @ + 1,
                                !.totalProcessed = @ + 1]
    /\ icall' = [icall EXCEPT ![p] = "threw"]
    /\ future' = [future EXCEPT ![p] = Settle(@, "rejected", "send failed")]
    /\ UNCHANGED <<auxVars, regVars, queueType, drainVars, shutVars, cacheVars, queue,
                   processing,
                   coalescing, stats, concurrency, items, proc, callVars, histVars>>

\* the processor (computeAndStore) after its delay: the digest and the cache write
InngestStore ==
  \E p \in Calls :
    /\ icall[p] = "delay"
    /\ set(text[p], sha256(text[p]))
    /\ icall' = [icall EXCEPT ![p] = "stored"]
    /\ UNCHANGED <<auxVars, regVars, queueType, istats, drainVars, shutVars, queueVars,
                   callVars, nops,
                   nclear>>

\* the processor resolved: the gauges move and enqueue returns the result
InngestReturn ==
  \E p \in Calls :
    /\ icall[p] = "stored"
    /\ istats' = [istats EXCEPT !.processing = @ - 1, !.completed = @ + 1,
                                !.totalProcessed = @ + 1]
    /\ icall' = [icall EXCEPT ![p] = "returned"]
    /\ future' = [future EXCEPT ![p] = Settle(@, "fulfilled", sha256(text[p]))]
    /\ UNCHANGED <<auxVars, regVars, queueType, drainVars, shutVars, cacheVars, queue,
                   processing,
                   coalescing, stats, concurrency, items, proc, callVars, histVars>>

\* pendingCount and processingCount of the registered queue
RegisteredPending == IF queueType = "memory" THEN pendingCount ELSE istats.pending
RegisteredProcessing == IF queueType = "memory" THEN processingCount ELSE istats.processing

\* drain() of the registered queue: MemoryQueue polls, InngestQueue returns
\* Promise.resolve()
RegisteredDrain == IF queueType = "memory" THEN drain ELSE draining' = "resolved"

\* shutdown() up to await drainAllQueues(): drain() of every registered queue
ShutdownStart ==
  /\ shutdown = "none"
  /\ RegisteredDrain
  /\ shutdown' = "draining"
  /\ quiet' = \A p \in Calls : pc[p] # "lookup"
  /\ UNCHANGED <<auxVars, regVars, enqueuedSince, inngestVars, cacheVars, queueVars,
               callVars, histVars>>

\* the poll timer of MemoryQueue.drain() fires
ShutdownDrainPoll ==
  /\ shutdown = "draining"
  /\ draining = "waiting"
  /\ drain
  /\ UNCHANGED <<auxVars, regVars, enqueuedSince, shutVars, inngestVars, cacheVars,
                 queueVars, callVars,
                 histVars>>

\* drainAllQueues() resolved: await clearCache() runs instance.clear()
ShutdownClearCache ==
  /\ shutdown = "draining"
  /\ draining = "resolved"
  /\ CacheClearAll
  /\ shutdown' = "clearing"
  /\ UNCHANGED <<auxVars, regVars, quiet, drainVars, inngestVars, queueVars, callVars,
                 nops, nclear>>

\* clearCache() resolved: the hook completes
ShutdownComplete ==
  /\ shutdown = "clearing"
  /\ shutdown' = "complete"
  /\ UNCHANGED <<auxVars, regVars, quiet, drainVars, inngestVars, cacheVars, queueVars,
                 callVars, histVars>>

ShutdownNext ==
  \/ BadRequest
  \/ ProcessMessage
  \/ ReturnCached
  \/ EnqueueComputation
  \/ ReturnComputed
  \/ Throw
  \/ ComputeAndStoreWrite
  \/ ComputeAndStoreReturn
  \/ Finally
  \/ InngestEnqueue
  \/ InngestSent
  \/ InngestSendFailed
  \/ InngestStore
  \/ InngestReturn
  \/ ShutdownStart
  \/ ShutdownDrainPoll
  \/ ShutdownClearCache
  \/ ShutdownComplete

ShutdownSpec == ShutdownInit /\ [][ShutdownNext]_vars

----------------------------------------------------------------------------
(* RegistrySpec: the queue registry under getQueue, enqueue and             *)
(* clearAllQueues calls                                                      *)

\* new MemoryQueue({ ...queueConfig,
\*                   concurrency: queueConfig.concurrency ?? env.queueConcurrency })
NewQueue(name, cfg) ==
  [name |-> name,
   processor |-> cfg.processor,
   getCoalesceKey |-> cfg.getCoalesceKey,
   concurrency |-> IF cfg.concurrency = <<>> THEN QUEUE_CONCURRENCY
                   ELSE cfg.concurrency[1],
   totalEnqueued |-> 0]

\* const existing = instances.get(name); if (existing) return existing
ExistingNever(name) == FALSE

Existing(name) == name \in DOMAIN instances

\* getQueue(name, queueConfig)
getQueue(name, cfg) ==
  IF Existing(name)
  THEN /\ lastGet' = instances[name]
       /\ UNCHANGED <<instances, objs>>
  ELSE /\ objs' = Append(objs, NewQueue(name, cfg))
       /\ instances' = MapPut(instances, name, Len(objs) + 1)
       /\ lastGet' = Len(objs) + 1

\* clearAllQueues(): clear() of every registered queue, then instances.clear()
clearAllQueues ==
  /\ objs' = [i \in DOMAIN objs |->
                IF \E n \in DOMAIN instances : instances[n] = i
                THEN [objs[i] EXCEPT !.totalEnqueued = 0]
                ELSE objs[i]]
  /\ instances' = <<>>
  /\ UNCHANGED lastGet

RegistryInit ==
  /\ EmptyCache
  /\ maxSize = 0
  /\ IdleQueue
  /\ concurrency = 1
  /\ IdleCalls
  /\ IdleExt
  /\ queueType = "memory"
  /\ nops = 0
  /\ nclear = 0

RGetQueue ==
  /\ nops < MaxOps
  /\ \E name \in Names, cfg \in Configs :
       /\ getQueue(name, cfg)
       /\ handed' = [handed EXCEPT ![name] = @ \cup {lastGet'}]
       /\ firstCfg' = [firstCfg EXCEPT ![name] = IF @ = <<>> THEN <<cfg>> ELSE @]
  /\ nops' = nops + 1
  /\ UNCHANGED <<drainVars, shutVars, inngestVars, auxVars, cacheVars, queueVars,
                 callVars, gone, lru, nclear>>

\* enqueue on a queue obtained from the registry: its totalEnqueued grows
REnqueue ==
  /\ nops < MaxOps
  /\ \E name \in DOMAIN instances :
       objs' = [objs EXCEPT ![instances[name]].totalEnqueued = @ + 1]
  /\ nops' = nops + 1
  /\ UNCHANGED <<drainVars, shutVars, inngestVars, auxVars, cacheVars, queueVars,
                 callVars, gone, lru, nclear, instances, lastGet, handed, firstCfg>>

RClearAllQueues ==
  /\ nclear < MaxClears
  /\ clearAllQueues
  /\ handed' = [n \in Names |-> {}]
  /\ firstCfg' = [n \in Names |-> <<>>]
  /\ nclear' = nclear + 1
  /\ UNCHANGED <<drainVars, shutVars, inngestVars, auxVars, cacheVars, queueVars,
                 callVars, gone, lru, nops>>

RegistryNext == RGetQueue \/ REnqueue \/ RClearAllQueues

RegistrySpec == RegistryInit /\ [][RegistryNext]_vars

----------------------------------------------------------------------------
(* InngestSpec: an InngestQueue under arbitrary enqueue and clear calls,    *)
(* the event send and the processor fulfilling or rejecting                 *)

InngestInit ==
  /\ EmptyCache
  /\ maxSize = 0
  /\ IdleQueue
  /\ concurrency = 1
  /\ IdleCalls
  /\ IdleExt
  /\ queueType = "inngest"
  /\ nops = 0
  /\ nclear = 0

\* the statements of the catch block of enqueue on _stats
InngestCatch(st) ==
  [st EXCEPT !.pending = @ - 1, !.failed = @ + 1, !.totalProcessed = @ + 1]

\* enqueue(data) up to await client.send(...)
IEnqueue ==
  \E p \in Calls :
    /\ icall[p] = "none"
    /\ \A q \in 1..(p - 1) : icall[q] # "none"
    /\ istats' = [istats EXCEPT !.totalEnqueued = @ + 1, !.pending = @ + 1]
    /\ icall' = [icall EXCEPT ![p] = "sending"]
    /\ future' = [future EXCEPT ![p] = PendingPromise]
    /\ nops' = nops + 1
    /\ UNCHANGED <<auxVars, regVars, queueType, drainVars, shutVars, cacheVars, queue,
                   processing, coalescing, stats, concurrency, items, proc, callVars,
                   gone, lru, nclear>>

\* await this.config.processor(data) fulfilled: the rest of the try block
IProcessorFulfilled ==
  \E p \in Calls, value \in {"v"} :
    /\ icall[p] = "delay"
    /\ istats' = [istats EXCEPT !.processing = @ - 1, !.completed = @ + 1,
                                !.totalProcessed = @ + 1]
    /\ icall' = [icall EXCEPT ![p] = "returned"]
    /\ future' = [future EXCEPT ![p] = Settle(@, "fulfilled", value)]
    /\ UNCHANGED <<auxVars, regVars, queueType, drainVars, shutVars, cacheVars, queue,
                   processing, coalescing, stats, concurrency, items, proc, callVars,
                   histVars>>

\* await this.config.processor(data) rejected: the catch block rethrows
IProcessorRejected ==
  \E p \in Calls :
    /\ icall[p] = "delay"
    /\ istats' = InngestCatch(istats)
    /\ icall' = [icall EXCEPT ![p] = "threw"]
    /\ future' = [future EXCEPT ![p] = Settle(@, "rejected", ProcessorError)]
    /\ UNCHANGED <<auxVars, regVars, queueType, drainVars, shutVars, cacheVars, queue,
                   processing, coalescing, stats, concurrency, items, proc, callVars,
                   histVars>>

\* clear(): _stats is assigned seven zeroes
IClear ==
  /\ nclear < MaxClears
  /\ istats' = ZeroInngestStats
  /\ nclear' = nclear + 1
  /\ UNCHANGED <<auxVars, regVars, queueType, icall, drainVars, shutVars, cacheVars,
                 queueVars, callVars, gone, lru, nops>>

InngestNext ==
  \/ IEnqueue
  \/ InngestSent
  \/ InngestSendFailed
  \/ IProcessorFulfilled
  \/ IProcessorRejected
  \/ IClear

InngestSpec == InngestInit /\ [][InngestNext]_vars

----------------------------------------------------------------------------
(* Claims *)

InFlight == Range(queue) \cup processing

ItemsFor(t) == {i \in 1..Len(items) : items[i].data.text = t}

RECURSIVE SumOver(_, _)
SumOver(S, f) ==
  IF S = {} THEN 0
  ELSE LET x == CHOOSE y \in S : TRUE IN f[x] + SumOver(S \ {x}, f)

\* the callers that attached to an item of text t instead of creating one
CoalescedFor(t) ==
  SumOver(ItemsFor(t), [i \in 1..Len(items) |-> Len(items[i].resolve) - 1])

Group(t) == {p \in Calls : text[p] = t}

\* all processMessage(t) calls made so far started before any of them returned,
\* and neither the queue nor the cache was cleared
Concurrent(t) ==
  /\ Group(t) # {}
  /\ \A p \in Group(t) : overlap[p]
  /\ nclear = 0

\* C1: N concurrent processMessage(x) calls, none started after another returned,
\* create exactly one queue item (one totalEnqueued increment), coalesce N-1
\* callers, and all N return the same digest.
Coalescing ==
  \A t \in Texts :
    Concurrent(t) =>
      /\ Cardinality(ItemsFor(t)) <= 1
      /\ (\A p \in Group(t) : pc[p] = "done") =>
           /\ Cardinality(ItemsFor(t)) = 1
           /\ CoalescedFor(t) = Cardinality(Group(t)) - 1
           /\ \A p, q \in Group(t) : result[p].hash = result[q].hash

\* C2: for every (non-empty) coalesce key at most one item bearing it is in
\* flight, pending or processing, in every state reachable by enqueue calls,
\* processor settlements and clear() calls.
AtMostOneInFlightPerKey ==
  \A i, j \in InFlight :
    (i # j /\ Truthy(getCoalesceKey(items[i].data)))
      => getCoalesceKey(items[i].data) # getCoalesceKey(items[j].data)

\* C3: the number of items in the processing map never exceeds the concurrency
\* limit.
ConcurrencyBound == processingCount <= concurrency

ConcurrencyBoundWitness ==
  /\ concurrency = 2
  /\ processingCount = 2
  /\ pendingCount >= 1

\* C4: the first processMessage(x) returns fromCache = false; a processMessage(x)
\* that starts after an earlier one has returned, while x has not been evicted
\* or cleared since its last write, returns fromCache = true with the digest the
\* earlier calls returned.
CacheAside ==
  \A p \in Calls :
    pc[p] = "done" =>
      /\ (\A q \in Calls : q < p => text[q] # text[p]) => ~result[p].fromCache
      /\ warm[p] =>
           /\ result[p].fromCache
           /\ \A q \in Calls :
                (q < p /\ text[q] = text[p] /\ pc[q] = "done")
                  => result[q].hash = result[p].hash

CacheAsideWitness ==
  \E p, q \in Calls :
    /\ q < p
    /\ text[q] = text[p]
    /\ pc[q] = "done" /\ ~result[q].fromCache
    /\ pc[p] = "done" /\ warm[p] /\ result[p].fromCache

\* C5: every result processMessage(x) returns carries sha256(x), whether it was
\* served from the cache, computed for the caller or shared by coalescing.
Determinism ==
  \A p \in Calls : pc[p] = "done" => result[p].hash = sha256(text[p])

DeterminismWitness ==
  /\ stats.coalesced = 1
  /\ \A p \in Calls : pc[p] = "done" /\ ~result[p].fromCache

\* C6: every promise enqueue returns is settled in the end: once the queue is
\* idle (nothing pending, nothing processing) no callback is left to run, so
\* no caller's promise is still pending.
EveryCallerAnswered ==
  (queue = <<>> /\ processing = {})
    => \A c \in Callers : future[c].state # "pending"

\* C7: items start in arrival order: an item still waiting in the FIFO has no
\* later-created item that already started, and the FIFO holds ids in
\* creation order.
FifoStartOrder ==
  /\ \A a, b \in 1..Len(items) :
       (a < b /\ a \in Range(queue)) => items[b].status = "pending"
  /\ \A m, n \in 1..Len(queue) : m < n => queue[m] < queue[n]

FifoStartOrderWitness ==
  /\ concurrency = 1
  /\ nclear = 0
  /\ Len(items) >= 3
  /\ items[1].status = "completed"
  /\ items[2].status = "processing"
  /\ items[3].status = "pending"

\* the keys a set(k, v) call must leave in the cache under LRU eviction: when
\* the size exceeds the maximum, all but the least recently accessed one
LruKeysAfterSet(k) ==
  LET present == MapKeys(data) \cup {k}
      order == Touch(lru, k)
  IN IF Cardinality(present) > maxSize THEN present \ {Head(order)} ELSE present

\* C8: a set(k, v) that takes the cache over its maximum evicts exactly the
\* least recently accessed entry (a get of an entry and a set are accesses).
LruEviction ==
  [][\A k \in Keys, v \in Values :
       (/\ data' = CacheSetData(data, k, v, maxSize)
        /\ hits' = hits /\ misses' = misses /\ nops' = nops + 1
        /\ lru' = Present(Touch(lru, k), data'))
         => MapKeys(data') = LruKeysAfterSet(k)]_vars

\* C9: stats.size never exceeds the configured maximum.
CacheSizeBound == CacheSize <= maxSize

\* C10: when the processor of an item fails, every caller attached to the item
\* is rejected with the processor's error, and failed and totalProcessed grow
\* by exactly one.
ErrorPropagation ==
  [][\A i \in 1..Len(items) :
       (items[i].status = "processing" /\ items'[i].status = "failed")
         => /\ \A c \in Range(items[i].reject) :
                 future'[c] = [state |-> "rejected", value |-> ProcessorError]
            /\ stats'.failed = stats.failed + 1
            /\ stats'.totalProcessed = stats.totalProcessed + 1
            /\ stats'.completed = stats.completed]_vars

ErrorPropagationWitness ==
  \E i \in 1..Len(items) :
    /\ items[i].status = "failed"
    /\ Len(items[i].reject) >= 2
    /\ \A c \in Range(items[i].reject) :
         future[c] = [state |-> "rejected", value |-> ProcessorError]
    /\ stats.failed = 1

Fulfilled(v) == [state |-> "fulfilled", value |-> v]
Rejected(e) == [state |-> "rejected", value |-> e]

\* C11: a processor failure does not stop scheduling: the failure of item i
\* touches no other item in the processing map nor its callers; when the
\* failed item leaves the processing map the head of the FIFO, if any, is
\* started; an item that was processing next to it still fulfils its own
\* callers with its own result.
FailureKeepsScheduling ==
  [][/\ \A i \in 1..Len(items) :
          (items[i].status = "processing" /\ items'[i].status = "failed")
            => /\ processing' = processing
               /\ queue' = queue
               /\ \A j \in processing \ {i} :
                    /\ items'[j] = items[j]
                    /\ \A c \in Range(items[j].reject) : future'[c] = future[c]
     /\ \A i \in 1..Len(items) :
          (items[i].status = "failed" /\ i \in processing /\ i \notin processing')
            => (queue # <<>>
                  => /\ Head(queue) \in processing'
                     /\ items'[Head(queue)].status = "processing"
                     /\ queue' = Tail(queue))
     /\ \A j \in 1..Len(items) :
          (stats.failed >= 1 /\ items[j].status = "processing"
             /\ items'[j].status = "completed")
            => \A c \in Range(items[j].resolve) :
                 future'[c] = Fulfilled(sha256(items[j].data.text))]_vars

FailureKeepsSchedulingWitness ==
  /\ concurrency = 2
  /\ nclear = 0
  /\ Len(items) = 3
  /\ items[1].status = "failed" /\ 1 \notin processing
  /\ future[1] = Rejected(ProcessorError)
  /\ items[2].status = "completed"
  /\ future[2] = Fulfilled(sha256(items[2].data.text))
  /\ items[3].status = "processing"

\* C12: clear() rejects every caller attached to a pending item with the
\* 'Queue cleared' error, which is not the processor's error, and an item
\* removed from the FIFO by clear() is never started.
ClearRejectsPending ==
  [][/\ (nclear' = nclear + 1)
          => /\ \A n \in 1..Len(queue) :
                  \A c \in Range(items[queue[n]].reject) :
                    future'[c] = Rejected(QueueCleared)
             /\ queue' = <<>>
     /\ \A i \in 1..Len(items) :
          (items[i].status = "pending" /\ i \notin Range(queue))
            => /\ items'[i].status = "pending"
               /\ proc'[i] = "idle"
               /\ i \notin processing'
     /\ QueueCleared # ProcessorError]_vars

ClearRejectsPendingWitness ==
  /\ nclear = 1
  /\ \E i \in 1..Len(items) :
       /\ items[i].status = "pending"
       /\ i \notin Range(queue)
       /\ Len(items[i].reject) >= 2
       /\ \A c \in Range(items[i].reject) : future[c] = Rejected(QueueCleared)

\* C13: clear() leaves the processing map, its items and the promises of their
\* callers as they are, and an item that settles after a clear() still hands
\* the processor's outcome to every caller attached to it.
ClearSparesInFlight ==
  [][/\ (nclear' = nclear + 1)
          => /\ processing' = processing
             /\ \A i \in processing :
                  /\ items'[i] = items[i]
                  /\ proc'[i] = proc[i]
                  /\ \A c \in Range(items[i].resolve) : future'[c] = future[c]
     /\ \A i \in 1..Len(items) :
          (nclear >= 1 /\ items[i].status = "processing")
            => /\ (items'[i].status = "completed"
                     => \A c \in Range(items[i].resolve) :
                          future'[c] = Fulfilled(sha256(items[i].data.text)))
               /\ (items'[i].status = "failed"
                     => \A c \in Range(items[i].reject) :
                          future'[c] = Rejected(ProcessorError))]_vars

ClearSparesInFlightWitness ==
  /\ nclear = 1
  /\ stats.totalEnqueued = 0
  /\ stats.completed = 1
  /\ \E i \in 1..Len(items) :
       /\ items[i].status = "completed"
       /\ Len(items[i].resolve) >= 2
       /\ \A c \in Range(items[i].resolve) :
            future[c] = Fulfilled(sha256(items[i].data.text))

\* C14: once drain() has resolved, and as long as enqueue is not called again,
\* nothing is pending and nothing is processing.
DrainCompletion ==
  (draining = "resolved" /\ ~enqueuedSince)
    => (pendingCount = 0 /\ processingCount = 0)

DrainCompletionWitness ==
  /\ draining = "resolved"
  /\ ~enqueuedSince
  /\ nclear = 1
  /\ stats.completed >= 1
  /\ stats.failed >= 1

\* C15: the shutdown hook clears the cache only after drain() of the registered
\* queue resolved, so that, no request arriving during the shutdown and none
\* being between its lookup and its enqueue when it starts, the registered
\* queue has nothing pending and nothing processing when the cache is cleared
\* and when the hook completes.
ShutdownOrdering ==
  [][(/\ shutdown' # shutdown
      /\ shutdown' \in {"clearing", "complete"}
      /\ quiet')
       => /\ draining = "resolved"
          /\ RegisteredPending' = 0
          /\ RegisteredProcessing' = 0]_vars

\* C16: a submit whose text is empty or longer than 10000 characters is
\* answered BAD_REQUEST without the service being called, and changes neither
\* the cache (contents, hits, misses, size) nor the queue (counters, FIFO,
\* processing map, coalescing index, items, promises).
ValidationMutatesNothing ==
  [][\A p \in Calls :
       (/\ pc[p] = "idle"
        /\ pc'[p] # "idle"
        /\ (TextLength(text'[p]) = 0 \/ TextLength(text'[p]) > TEXT_MAX_LENGTH))
         => /\ pc'[p] = "badRequest"
            /\ cacheVars' = cacheVars
            /\ queueVars' = queueVars
            /\ cached' = cached
            /\ result' = result]_vars

ValidationMutatesNothingWitness ==
  \E p, q \in Calls :
    /\ pc[q] = "queued"
    /\ processingCount = 1
    /\ pc[p] = "badRequest"
    /\ text[p] = TooLong

Counters == {"completed", "failed", "coalesced", "totalEnqueued", "totalProcessed"}

\* C18: totalProcessed = completed + failed in every state of the queue,
\* after clear() too.
StatsIdentity == stats.totalProcessed = stats.completed + stats.failed

StatsIdentityWitness ==
  /\ nclear = 1
  /\ stats.completed >= 1
  /\ stats.failed >= 1

\* C19: no step other than clear() decreases a counter, and clear() sets the
\* five counters to zero.
MonotonicCounters ==
  [][IF nclear' = nclear + 1
     THEN \A f \in Counters : stats'[f] = 0
     ELSE \A f \in Counters : stats'[f] >= stats[f]]_vars

MonotonicCountersWitness ==
  /\ nclear = 1
  /\ \A f \in Counters : stats[f] = 0
  /\ \E i \in 1..Len(items) :
       /\ items[i].status = "completed"
       /\ i \notin processing
       /\ Len(items[i].resolve) >= 2

\* C20: an enqueue that finds an item under its key adds one to coalesced and
\* leaves totalEnqueued, the other counters, the items created, the FIFO, the
\* processing map, the coalescing index and the processor invocations as
\* they were.
CoalescedEnqueueFrame ==
  [][\A i \in 1..Len(items') :
       LET key == items'[i].data.text
       IN (/\ nops' = nops + 1
           /\ (nops + 1) \in Range(items'[i].resolve)
           /\ key # ""
           /\ key \in DOMAIN coalescing)
            => /\ stats' = [stats EXCEPT !.coalesced = @ + 1]
               /\ Len(items') = Len(items)
               /\ \A j \in 1..Len(items) : items'[j].status = items[j].status
               /\ queue' = queue
               /\ processing' = processing
               /\ coalescing' = coalescing
               /\ proc' = proc]_vars

CoalescedEnqueueFrameWitness ==
  /\ stats.coalesced = 2
  /\ stats.totalEnqueued = 1
  /\ Len(items) = 1
  /\ pendingCount = 0
  /\ processingCount = 1

\* C21: no enqueue attaches its callbacks to an item whose completion
\* callbacks have already been invoked: the item a coalescing enqueue finds in
\* the index is still pending or processing.
NoAttachToFinished ==
  [][\A i \in 1..Len(items) :
       (nops' = nops + 1 /\ Len(items'[i].resolve) > Len(items[i].resolve))
         => items[i].status \in {"pending", "processing"}]_vars

\* C22: when an item settles, the callbacks of its callers are invoked in the
\* order the callers arrived (callers are numbered by arrival), the original
\* enqueuer first, and all of them with the same result or the same error.
FanOutOrder ==
  [][\A i \in 1..Len(items) :
       (items[i].status = "processing" /\ items'[i].status \in {"completed", "failed"})
         => LET order == IF items'[i].status = "completed"
                         THEN CallOrder(items[i].resolve)
                         ELSE CallOrder(items[i].reject)
            IN /\ \A m, n \in 1..Len(order) : m < n => order[m] < order[n]
               /\ \A c \in Range(order) : future[c].state = "pending"
               /\ \A c, e \in Range(order) : future'[c] = future'[e]
               /\ \A c \in Range(order) :
                    future'[c].state = IF items'[i].status = "completed"
                                       THEN "fulfilled" ELSE "rejected"]_vars

FanOutOrderWitness ==
  \E i \in 1..Len(items) :
    /\ items[i].status = "completed"
    /\ CallOrder(items[i].resolve) = <<1, 2, 3>>
    /\ \A c \in 1..3 : future[c] = Fulfilled(sha256(items[i].data.text))

\* C23: no processor execution for a text starts while the cache holds an
\* entry for that text (neither the queue nor the cache having been cleared).
ComputeOnceWhileCached ==
  [][\A i \in 1..Len(items') :
       (/\ nclear' = 0
        /\ proc'[i] = "delay"
        /\ (IF i > Len(items) THEN TRUE ELSE proc[i] = "idle"))
         => ~MapHas(data, items'[i].data.text)]_vars

\* C24: the processor's cache write of x -> sha256(x) is applied before the
\* item's fulfil callback is invoked, so before any caller receives a result
\* with fromCache = false; a caller whose promise was rejected receives no
\* result.
WriteBackPrecedesReply ==
  [][/\ \A i \in 1..Len(items) :
          /\ (proc[i] = "delay" /\ proc'[i] = "stored")
               => MapGet(data', items[i].data.text) = sha256(items[i].data.text)
          /\ (items[i].status = "processing" /\ items'[i].status = "completed")
               => proc[i] = "stored"
     /\ \A p \in Calls :
          /\ (future[p].state = "pending" /\ future'[p].state = "fulfilled")
               => \E i \in 1..Len(items) :
                    /\ p \in Range(items[i].resolve)
                    /\ proc[i] = "stored"
                    /\ future'[p].value = sha256(text[p])
          /\ (pc[p] # "done" /\ pc'[p] = "done" /\ ~result'[p].fromCache)
               => /\ future[p].state = "fulfilled"
                  /\ result'[p].hash = future[p].value
          /\ (future[p].state = "rejected") => pc'[p] # "done"]_vars

WriteBackPrecedesReplyWitness ==
  \E p, q \in Calls :
    /\ pc[p] = "done"
    /\ ~result[p].fromCache
    /\ MapGet(data, text[p]) = result[p].hash
    /\ pc[q] = "threw"

\* C25: get(key) of a key that is present returns the stored value, adds one to
\* hits and makes the entry the most recently used; get(key) of an absent key
\* returns absent, adds one to misses and leaves contents and order unchanged;
\* for every key and every stored value.
GetAccounting ==
  [][(nops' = nops + 1 /\ lastOp'.op = "get")
       => LET k == lastOp'.key IN
          IF MapHas(data, k)
          THEN /\ lastOp'.value = MapGet(data, k)
               /\ hits' = hits + 1
               /\ misses' = misses
               /\ data' = Append(MapDelete(data, k), <<k, MapGet(data, k)>>)
          ELSE /\ lastOp'.value = Null
               /\ hits' = hits
               /\ misses' = misses + 1
               /\ data' = data]_vars

\* C26: set(k, v) of a key already present replaces its value, makes k the most
\* recently used entry, leaves the size unchanged and evicts no other entry;
\* no set call makes the size grow by more than one.
OverwriteDoesNotEvict ==
  [][(nops' = nops + 1 /\ lastOp'.op = "set")
       => LET k == lastOp'.key
              v == lastOp'.value
          IN /\ Len(data') <= Len(data) + 1
             /\ MapHas(data, k)
                  => /\ MapHas(data', k)
                     /\ MapGet(data', k) = v
                     /\ data'[Len(data')][1] = k
                     /\ Len(data') = Len(data)
                     /\ MapKeys(data') = MapKeys(data)]_vars

\* C27: clear() leaves hits = 0, misses = 0 and size = 0, and every get between
\* a clear() and the next set returns absent.
ClearResets ==
  [][/\ (nops' = nops + 1 /\ lastOp'.op = "clear")
          => (hits' = 0 /\ misses' = 0 /\ CacheSize' = 0)
     /\ (nops' = nops + 1 /\ lastOp'.op = "get" /\ lastOp'.fresh)
          => lastOp'.value = Null]_vars

ClearResetsWitness ==
  /\ lastOp.op = "get"
  /\ lastOp.fresh
  /\ nops >= 4
  /\ misses = 2

\* C28: between two clearAllQueues() calls every getQueue(name, config) returns
\* the one adapter registered under the name, configured by the first call;
\* the first getQueue(name) after a clearAllQueues() (or ever) returns an
\* adapter created by that call, with zero statistics.
RegistrySingleton ==
  [][/\ \A n \in Names :
          /\ Cardinality(handed'[n]) <= 1
          /\ (handed'[n] # {})
               => \A i \in handed'[n] :
                    /\ objs'[i].name = n
                    /\ objs'[i].processor = firstCfg'[n][1].processor
                    /\ objs'[i].getCoalesceKey = firstCfg'[n][1].getCoalesceKey
                    /\ objs'[i].concurrency =
                         (IF firstCfg'[n][1].concurrency = <<>>
                          THEN QUEUE_CONCURRENCY ELSE firstCfg'[n][1].concurrency[1])
          /\ (handed[n] = {} /\ handed'[n] # {} /\ nops' = nops + 1)
               => /\ handed'[n] = {Len(objs) + 1}
                  /\ objs'[Len(objs) + 1].totalEnqueued = 0]_vars

RegistrySingletonWitness ==
  /\ nclear = 1
  /\ Len(objs) = 2
  /\ objs[1].name = objs[2].name
  /\ objs[1].processor # objs[2].processor
  /\ handed[objs[2].name] = {2}
  /\ objs[2].totalEnqueued = 1

\* C29: a waiting item and a free slot never coexist: whenever the FIFO is
\* not empty the processing map holds as many items as the concurrency limit.
WorkConservation == (queue # <<>>) => (processingCount = concurrency)

WorkConservationWitness ==
  /\ concurrency = 2
  /\ pendingCount = 1
  /\ processingCount = 2
  /\ \E i \in processing : items[i].status = "failed"

\* C30: the completion of an item removes no coalescing entry that refers to
\* another item: an entry that disappears when an item leaves the processing
\* map referred to that item.
CompletionRemovesOwnEntry ==
  [][\A i \in processing :
       (i \notin processing')
         => \A k \in (DOMAIN coalescing) \ (DOMAIN coalescing') : coalescing[k] = i]_vars

\* C31: totalProcessed never exceeds totalEnqueued, whatever the sequence of
\* enqueue calls, processor settlements and clear() calls.
ProcessedAtMostEnqueued == stats.totalProcessed <= stats.totalEnqueued

\* C32: as long as clear() has not been called, every read of stats finds
\* totalEnqueued = pending + processing + completed + failed: every item is
\* counted once.
ItemAccounting ==
  nclear = 0
    => stats.totalEnqueued
         = pendingCount + processingCount + stats.completed + stats.failed

\* C33: every enqueue call adds one to exactly one of totalEnqueued and
\* coalesced, clear() zeroes both and nothing else changes them, so that since
\* construction or the last clear() their sum is the number of enqueue calls.
CallAccounting ==
  /\ [](nclear = 0 => stats.totalEnqueued + stats.coalesced = nops)
  /\ [][/\ (nops' = nops + 1)
            => /\ stats'.totalEnqueued + stats'.coalesced
                    = stats.totalEnqueued + stats.coalesced + 1
               /\ stats'.totalEnqueued >= stats.totalEnqueued
               /\ stats'.coalesced >= stats.coalesced
        /\ (nclear' = nclear + 1)
            => stats'.totalEnqueued + stats'.coalesced = 0
        /\ (nops' = nops /\ nclear' = nclear)
            => /\ stats'.totalEnqueued = stats.totalEnqueued
               /\ stats'.coalesced = stats.coalesced]_vars

CallAccountingWitness ==
  /\ nclear = 1
  /\ nops = MaxEnqueues
  /\ stats.totalEnqueued = 1
  /\ stats.coalesced = 1

\* C34: every entry (k, v) the cache of the service holds has v = sha256(k),
\* whatever the requests, evictions, clears and failures before.
CachedValuesCorrect ==
  \A n \in 1..Len(data) : data[n][2] = sha256(data[n][1])

CachedValuesCorrectWitness ==
  /\ maxSize = 1
  /\ Len(data) = 1
  /\ gone # {}
  /\ nclear = 0
  /\ \A p \in Calls : pc[p] = "done"

\* the calls that have passed their cache lookup, and those whose lookup
\* returned a value
PastLookup == {p \in Calls : pc[p] \in {"lookup", "queued", "done", "threw"}}
LookupHit == {p \in PastLookup : Truthy(cached[p])}

\* C35: every processMessage call makes one cache lookup, counted as a hit or
\* as a miss, and is answered with fromCache = true exactly when its lookup was
\* a hit (a coalesced call is a miss); only a cache clear resets the two
\* counters. So, since the last cache clear, hits + misses is the number of
\* calls that passed the lookup and hits the number of those answered from
\* the cache.
LookupAccounting ==
  /\ [](nclear = 0 => /\ hits + misses = Cardinality(PastLookup)
                       /\ hits = Cardinality(LookupHit))
  /\ [](\A p \in Calls : pc[p] = "done" => (result[p].fromCache <=> p \in LookupHit))
  /\ [](\A p \in Calls : pc[p] \in {"queued", "threw"} => p \notin LookupHit)
  /\ [][IF PastLookup' # PastLookup
        THEN /\ hits' + misses' = hits + misses + 1
             /\ hits' = hits + Cardinality(LookupHit' \ LookupHit)
        ELSE \/ hits' = hits /\ misses' = misses
             \/ nclear' = nclear + 1 /\ hits' = 0 /\ misses' = 0]_vars

LookupAccountingWitness ==
  /\ nclear = 0
  /\ hits = 1
  /\ misses = 1
  /\ \E p, q \in Calls :
       /\ pc[p] = "done" /\ ~result[p].fromCache
       /\ pc[q] = "done" /\ result[q].fromCache

\* C36: with every processor invocation settling in the end, a concurrency of
\* at least 1 and no enqueue after some point, a drain() call that is waiting
\* resolves in the end.
DrainTerminates == (draining = "waiting") ~> (draining = "resolved")

DrainTerminatesWitness ==
  /\ draining = "waiting"
  /\ nops = MaxEnqueues
  /\ Len(queue) > 0
  /\ \E i \in processing : Running(i)

\* the enqueue calls of the InngestQueue awaiting the event send, and those
\* running the processor
AwaitingSend == {p \in Calls : icall[p] = "sending"}
RunningProcessor == {p \in Calls : icall[p] = "delay"}

\* C37: pendingCount is the number of enqueue calls awaiting the event send
\* and processingCount the number of those running the processor, so neither
\* is negative and both are 0 when no call is outstanding, however the calls
\* ended (stated for the queues on which clear() was not called).
InngestGauges ==
  nclear = 0
    => /\ istats.pending = Cardinality(AwaitingSend)
       /\ istats.processing = Cardinality(RunningProcessor)

====
